---------------------------- MODULE Spec2Model ----------------------------
(***************************************************************************)
(* Model of the self-update protocol of src/updater.py.                    *)
(*                                                                         *)
(* apply_update dispatches on sys.platform to apply_windows_update or      *)
(* apply_unix_update.  Each of them checks the environment, renders a      *)
(* replacement script (a Windows batch file or a bash script), writes it   *)
(* to one fixed file name in the temporary directory and launches it as a  *)
(* separate process.  The script then waits for the calling ("origin")     *)
(* process, backs up the current binary, installs the new one, cleans up,  *)
(* restarts the application and deletes itself.                            *)
(*                                                                         *)
(* The model has one action for apply_update and one action per command    *)
(* (or per if-block) of each generated script.  Every file command of the  *)
(* script may fail: the failure is an input of its action.  File contents  *)
(* are abstracted to the labels                                            *)
(*    "none"    no file at the path                                        *)
(*    "old"     the complete binary installed before the update            *)
(*    "new"     the complete downloaded binary                             *)
(*    "stale"   a complete backup left over from some earlier update       *)
(*    "partial" a truncated or half-written file                           *)
(* File modes are not modelled (chmod is a step without effect on the      *)
(* labels).  Delays (ping -n, sleep) have no effect on the state and are   *)
(* folded into the neighbouring step.  A process id is not reused, so the  *)
(* origin process never comes back to life.  A script process keeps        *)
(* running the text it was started with, whatever happens to its file.     *)
(***************************************************************************)
EXTENDS Naturals, Sequences, FiniteSets

\* ---- program constants ------------------------------------------------
\* "if !count! geq 30 goto :force_kill"
MAX_WAIT == 30
\* "if !retry! lss 5"
MAX_RETRY == 5

\* ---- bounds of the model ------------------------------------------------
\* How many times the caller may invoke apply_update in one behaviour of
\* SpecRepeat (Spec allows one invocation).
MaxApplyCalls == 2
\* The history counter of polls saturates here (the bash wait loop has no
\* counter of its own and may poll without end).
MaxPolls == 32

Platforms == {"win32", "linux", "darwin", "other"}
ScriptIds == 1..MaxApplyCalls

\* terminals = [...] in apply_unix_update, in the order of the list
Terminals == <<"gnome-terminal", "konsole", "xfce4-terminal", "xterm", "termux-open">>

VARIABLES
    platform,    \* sys.platform
    frozen,      \* getattr(sys, 'frozen', False)
    alive,       \* the origin process (os.getpid()) is running
    cur,         \* content of current_exe_path / current_binary_path
    bak,         \* content of the backup path (".old" / ".backup")
    newf,        \* content of new_exe_path / new_binary_path
    scriptFile,  \* content of the fixed-name script file: "none", "partial", "full"
    appRunning,  \* a process started by a script's Restart step is running
    calls,       \* sequence of the results of the apply_update calls so far
    scr          \* the script processes, by the number of the call that started them

vars == <<platform, frozen, alive, cur, bak, newf, scriptFile, appRunning, calls, scr>>

IsWin == platform = "win32"
IsUnix == platform \in {"linux", "darwin"}

Min(a, b) == IF a < b THEN a ELSE b

\* ---- the script process record -------------------------------------------
\* pc        next command of the script ("idle": never started, "exited")
\* count     the batch variable count        retry  the batch variable retry
\* The other fields are history: what this run has found and done so far
\* (cur0: the current binary when it was started; cleanupFailed: a delete of
\* the Cleanup step left its file behind; verify: what the check after the
\* first launch found).
IdleScript ==
    [pc |-> "idle", count |-> 0, retry |-> 0, polls |-> 0, timedOut |-> FALSE, cur0 |-> "none",
     forceKill |-> FALSE, kills |-> 0, bkTries |-> 0, bk |-> "no",
     inst |-> "no", rb |-> "no", cleanupFailed |-> FALSE, cleaned |-> FALSE,
     launches |-> 0, verify |-> "no", exit |-> "none"]

Live(i) == scr[i].pc \notin {"idle", "exited"}
LiveScripts == {i \in ScriptIds : Live(i)}

\* A script process as the call would leave it if it returned only after the
\* script's first poll (a wait on the Popen object).
StartedScript_AfterFirstPoll ==
    [IdleScript EXCEPT !.pc = "waitloop", !.cur0 = cur, !.polls = 1, !.count = 1]

\* A script process as subprocess.Popen starts it.
StartedScript ==
    [IdleScript EXCEPT !.pc = "waitloop", !.cur0 = cur]

\* ---- file commands ----------------------------------------------------------
\* copy /Y src dst, cp src dst.  The result is the content of dst.  A copy of a
\* missing source fails and leaves dst alone; a failed copy leaves dst as it
\* was (it could not be opened) or truncated / half-written.
CopyResults(src, dst, ok) ==
    IF src = "none" THEN {dst}
    ELSE IF ok THEN {src}
    ELSE {dst, "partial"}

CopyOk(src, ok) == src # "none" /\ ok

\* move /Y src dst inside one directory is a rename: all or nothing.
MoveOk(src, ok) == src # "none" /\ ok

\* del /F /Q f, rm -f f: the content of f afterwards.
DelResult(f, ok) == IF ok THEN "none" ELSE f

\* The delete left a file behind.
DelFailed(f, ok) == f # "none" /\ ~ok

\* ---- Init ---------------------------------------------------------------------
Init ==
    /\ platform \in Platforms
    /\ frozen \in BOOLEAN
    /\ alive = TRUE
    /\ cur \in {"old", "none"}
    /\ bak \in {"none", "stale"}
    /\ newf \in {"new", "none"}
    /\ scriptFile \in {"none", "full"}
    /\ appRunning = FALSE
    /\ calls = <<>>
    /\ scr = [i \in ScriptIds |-> IdleScript]

\* ---- apply_update ---------------------------------------------------------------
\* The outcome of one call: the value returned, the content of the script file
\* afterwards, whether a script process was started, by which command, how
\* many spawns were tried and how many of them returned a process.
Outcome(ret, file, started, via, tried, spawned) ==
    [ret |-> ret, file |-> file, started |-> started, via |-> via, tried |-> tried,
     spawned |-> spawned]

\* "return False" before the try block: nothing has been touched.
Refused == Outcome(FALSE, scriptFile, FALSE, "none", 0, 0)

\* with open(path, 'w') as f: f.write(content).  w = "ok": written;
\* "open_fail": open raised, the file is as it was; "partial": open truncated
\* the file and write raised.
WriteOutcomes == {"ok", "open_fail", "partial"}
Written(w) == IF w = "ok" THEN "full" ELSE IF w = "partial" THEN "partial" ELSE scriptFile

\* apply_windows_update without its "if not getattr(sys, 'frozen', False)" gate.
apply_windows_update_Ungated(w, l) ==
    IF newf = "none" THEN Refused
    ELSE IF w # "ok" THEN Outcome(FALSE, Written(w), FALSE, "none", 0, 0)
    ELSE IF ~l THEN Outcome(FALSE, "full", FALSE, "none", 1, 0)
    ELSE Outcome(TRUE, "full", TRUE, "cmd.exe", 1, 1)

\* apply_windows_update whose except clause swallows the failure of Popen and
\* falls out to "return True".
apply_windows_update_Swallow(w, l) ==
    IF ~frozen THEN Refused
    ELSE IF newf = "none" THEN Refused
    ELSE IF w # "ok" THEN Outcome(FALSE, Written(w), FALSE, "none", 0, 0)
    ELSE IF ~l THEN Outcome(TRUE, "full", FALSE, "none", 1, 0)
    ELSE Outcome(TRUE, "full", TRUE, "cmd.exe", 1, 1)

\* apply_windows_update: w is the outcome of writing the batch file, l tells
\* whether subprocess.Popen(['cmd.exe', '/c', bat_path], ...) returned.
apply_windows_update(w, l) ==
    IF ~frozen THEN Refused
    ELSE IF newf = "none" THEN Refused
    ELSE IF w # "ok" THEN Outcome(FALSE, Written(w), FALSE, "none", 0, 0)
    ELSE IF ~l THEN Outcome(FALSE, "full", FALSE, "none", 1, 0)
    ELSE Outcome(TRUE, "full", TRUE, "cmd.exe", 1, 1)

\* The emulator of lowest index whose Popen does not raise in the caller's
\* environment, 0 when none does.
LowestAvailable(avail) ==
    IF avail = {} THEN 0 ELSE CHOOSE j \in avail : \A m \in avail : j <= m

\* The for loop walking the list from its end: the last index that spawns.
FirstTerminal_Backwards(k, avail) ==
    IF avail = {} THEN 0 ELSE CHOOSE j \in avail : \A m \in avail : m <= j

\* The for loop over terminals: the first index of the list whose Popen does
\* not raise, 0 when every one raises.  avail is the set of indices that spawn.
RECURSIVE FirstTerminal(_, _)
FirstTerminal(k, avail) ==
    IF k > Len(Terminals) THEN 0
    ELSE IF k \in avail THEN k
    ELSE FirstTerminal(k + 1, avail)

\* apply_unix_update whose loop forgets "launched = True": after a terminal has
\* spawned, the bash fallback is spawned as well, and when that raises the
\* call returns False.
apply_unix_update_NoFlag(w, c, avail, l) ==
    IF ~frozen THEN Refused
    ELSE IF newf = "none" THEN Refused
    ELSE IF w # "ok" THEN Outcome(FALSE, Written(w), FALSE, "none", 0, 0)
    ELSE IF ~c THEN Outcome(FALSE, "full", FALSE, "none", 0, 0)
    ELSE IF platform = "darwin"
         THEN IF l THEN Outcome(TRUE, "full", TRUE, "osascript", 1, 1)
              ELSE Outcome(FALSE, "full", FALSE, "none", 1, 0)
    ELSE LET k == FirstTerminal(1, avail) IN
         IF l THEN Outcome(TRUE, "full", TRUE, "bash", Len(Terminals) + 1,
                           IF k # 0 THEN 2 ELSE 1)
         ELSE Outcome(FALSE, "full", k # 0, IF k # 0 THEN Terminals[k] ELSE "none",
                      Len(Terminals) + 1, IF k # 0 THEN 1 ELSE 0)

\* apply_unix_update with the os.path.exists test moved into the try block,
\* after the script has been written and made executable.
apply_unix_update_LateCheck(w, c, avail, l) ==
    IF ~frozen THEN Refused
    ELSE IF w # "ok" THEN Outcome(FALSE, Written(w), FALSE, "none", 0, 0)
    ELSE IF ~c THEN Outcome(FALSE, "full", FALSE, "none", 0, 0)
    ELSE IF newf = "none" THEN Outcome(FALSE, "full", FALSE, "none", 0, 0)
    ELSE IF platform = "darwin"
         THEN IF l THEN Outcome(TRUE, "full", TRUE, "osascript", 1, 1)
              ELSE Outcome(FALSE, "full", FALSE, "none", 1, 0)
    ELSE LET k == FirstTerminal(1, avail) IN
         IF k # 0 THEN Outcome(TRUE, "full", TRUE, Terminals[k], k, 1)
         ELSE IF l THEN Outcome(TRUE, "full", TRUE, "bash", Len(Terminals) + 1, 1)
         ELSE Outcome(FALSE, "full", FALSE, "none", Len(Terminals) + 1, 0)

\* apply_unix_update: w as above, c tells whether os.chmod returned, avail is
\* the set of terminal emulators that spawn, l tells whether the single spawn
\* (osascript on darwin, the 'bash script_path' fallback on linux) returned.
apply_unix_update(w, c, avail, l) ==
    IF ~frozen THEN Refused
    ELSE IF newf = "none" THEN Refused
    ELSE IF w # "ok" THEN Outcome(FALSE, Written(w), FALSE, "none", 0, 0)
    ELSE IF ~c THEN Outcome(FALSE, "full", FALSE, "none", 0, 0)
    ELSE IF platform = "darwin"
         THEN IF l THEN Outcome(TRUE, "full", TRUE, "osascript", 1, 1)
              ELSE Outcome(FALSE, "full", FALSE, "none", 1, 0)
    ELSE LET k == FirstTerminal(1, avail) IN
         IF k # 0 THEN Outcome(TRUE, "full", TRUE, Terminals[k], k, 1)
         ELSE IF l THEN Outcome(TRUE, "full", TRUE, "bash", Len(Terminals) + 1, 1)
         ELSE Outcome(FALSE, "full", FALSE, "none", Len(Terminals) + 1, 0)

\* apply_update whose else branch falls back to the shell-script path.
apply_update_ElseUnix(w, c, avail, l) ==
    IF platform = "win32" THEN apply_windows_update(w, l)
    ELSE apply_unix_update(w, c, avail, l)

\* apply_update: the dispatch on sys.platform.
apply_update(w, c, avail, l) ==
    IF platform = "win32" THEN apply_windows_update(w, l)
    ELSE IF platform \in {"linux", "darwin"} THEN apply_unix_update(w, c, avail, l)
    ELSE Refused

\* can_auto_update as a test of the windows platform only.
can_auto_update_WinOnly == platform = "win32" /\ frozen

\* can_auto_update
can_auto_update == platform \in {"win32", "linux", "darwin"} /\ frozen

\* os.path.join(tempfile.gettempdir(), 'fxdownloader_update.bat') and
\* (..., 'fxdownloader_update.sh'): the file that call number n writes.  The
\* name does not depend on the call.
script_path(n) ==
    IF platform = "win32" THEN "fxdownloader_update.bat" ELSE "fxdownloader_update.sh"

\* apply_update that ends the calling process itself once the script is
\* started (a sys.exit after the launch).
ApplyUpdate_ExitsCaller ==
    /\ alive
    /\ \E w \in WriteOutcomes, c \in BOOLEAN, avail \in SUBSET (1..Len(Terminals)), l \in BOOLEAN :
         LET r == apply_update(w, c, avail, l)
             n == Len(calls) + 1
         IN /\ scriptFile' = r.file
            /\ calls' = Append(calls, [ret |-> r.ret, started |-> r.started,
                                       via |-> r.via, tried |-> r.tried,
                                       spawned |-> r.spawned, path |-> script_path(n),
                                       first |-> IF platform = "linux" /\ r.tried > 0
                                                 THEN LowestAvailable(avail) ELSE 0])
            /\ scr' = IF r.started THEN [scr EXCEPT ![n] = StartedScript] ELSE scr
            /\ alive' = ~r.started
    /\ UNCHANGED <<platform, frozen, cur, bak, newf, appRunning>>

\* One call of apply_update by the origin process.  The call is synchronous
\* and touches nothing but the script file; the script process it starts gets
\* the number of the call.
ApplyUpdate ==
    /\ alive
    /\ \E w \in WriteOutcomes, c \in BOOLEAN, avail \in SUBSET (1..Len(Terminals)), l \in BOOLEAN :
         LET r == apply_update(w, c, avail, l)
             n == Len(calls) + 1
         IN /\ scriptFile' = r.file
            /\ calls' = Append(calls, [ret |-> r.ret, started |-> r.started,
                                       via |-> r.via, tried |-> r.tried,
                                       spawned |-> r.spawned, path |-> script_path(n),
                                       first |-> IF platform = "linux" /\ r.tried > 0
                                                 THEN LowestAvailable(avail) ELSE 0])
            /\ scr' = IF r.started THEN [scr EXCEPT ![n] = StartedScript] ELSE scr
    /\ UNCHANGED <<platform, frozen, alive, cur, bak, newf, appRunning>>

\* The first call of a behaviour.
ApplyOnce == calls = <<>> /\ ApplyUpdate

\* A further call by the same, still running, caller.
ApplyAgain == calls # <<>> /\ Len(calls) < MaxApplyCalls /\ ApplyUpdate

\* The origin process exits (on its own, at any time).
OriginExits ==
    /\ alive
    /\ alive' = FALSE
    /\ UNCHANGED <<platform, frozen, cur, bak, newf, scriptFile, appRunning, calls, scr>>

\* ---- the generated scripts: common helpers ------------------------------------------
At(i, label) == scr[i].pc = label

\* Script i continues as record r.
Becomes(i, r) == scr' = [scr EXCEPT ![i] = r]

\* "pause" / "read -p ..." followed by "exit /b 1" / "exit 1": the script waits
\* for a key and ends with status 1 for the reason why.
Fatal(s, why) == [s EXCEPT !.pc = "pause", !.exit = why]

\* A file that can be started as a program.
Launchable(f) == f \in {"old", "new", "stale"}

\* count is read nowhere after the wait loop, and polls counts the polls of
\* the loop while it runs: both are forgotten when the loop is left, so that
\* the rest of the run does not depend on how long the wait was.  timedOut
\* keeps whether the poll number MAX_WAIT found the origin process running.
LeftLoop(s) == [s EXCEPT !.count = 0, !.polls = 0]

\* ---- the batch script of apply_windows_update ----------------------------------------
\* :waitloop  tasklist /FI "PID eq pid" | find "pid"; if errorlevel 1 goto
\* :process_exited; set /a count+=1; if !count! geq 30 goto :force_kill
WinWaitLoop(i) ==
    /\ IsWin /\ At(i, "waitloop")
    /\ LET s == [scr[i] EXCEPT !.polls = Min(@ + 1, MaxPolls)] IN
       IF ~alive
       THEN Becomes(i, LeftLoop([s EXCEPT !.pc = "process_exited"]))
       ELSE IF s.count + 1 >= MAX_WAIT
       THEN Becomes(i, LeftLoop([s EXCEPT !.pc = "force_kill", !.timedOut = TRUE]))
       ELSE Becomes(i, [s EXCEPT !.count = @ + 1])
    /\ UNCHANGED <<platform, frozen, alive, cur, bak, newf, scriptFile, appRunning, calls>>

\* :force_kill  taskkill /F /PID pid  (its result is not looked at)
WinForceKill(i) ==
    /\ IsWin /\ At(i, "force_kill")
    /\ \E ok \in BOOLEAN : alive' = (alive /\ ~ok)
    /\ Becomes(i, [scr[i] EXCEPT !.pc = "process_exited", !.forceKill = TRUE,
                                 !.kills = @ + 1])
    /\ UNCHANGED <<platform, frozen, cur, bak, newf, scriptFile, appRunning, calls>>

\* taskkill /F /IM exe_name: every process of that image name may or may not
\* be ended (the result is not looked at).
KillByName ==
    \E ko \in BOOLEAN, ka \in BOOLEAN :
        /\ alive' = (alive /\ ~ko)
        /\ appRunning' = (appRunning /\ ~ka)

\* :process_exited  taskkill /F /IM exe_name
WinKillByName(i) ==
    /\ IsWin /\ At(i, "process_exited")
    /\ KillByName
    /\ Becomes(i, [scr[i] EXCEPT !.pc = "move_retry", !.kills = @ + 1])
    /\ UNCHANGED <<platform, frozen, cur, bak, newf, scriptFile, calls>>

\* :move_retry  del /F /Q "cur.old"
WinMoveRetry(i) ==
    /\ IsWin /\ At(i, "move_retry")
    /\ \E ok \in BOOLEAN :
         /\ bak' = DelResult(bak, ok)
         /\ Becomes(i, [scr[i] EXCEPT !.pc = "backup_move"])
    /\ UNCHANGED <<platform, frozen, alive, cur, newf, scriptFile, appRunning, calls>>

\* The backup block without its "pause ; exit /b 1": when the retries are used
\* up the script goes on to the copy.
WinBackupMove_FallThrough(i) ==
    /\ IsWin /\ At(i, "backup_move")
    /\ IF cur = "none"
       THEN /\ Becomes(i, [scr[i] EXCEPT !.pc = "install", !.bk = "skipped"])
            /\ UNCHANGED <<cur, bak>>
       ELSE \E ok \in BOOLEAN :
              LET s == [scr[i] EXCEPT !.bkTries = @ + 1] IN
              IF MoveOk(cur, ok)
              THEN /\ bak' = cur
                   /\ cur' = "none"
                   /\ Becomes(i, [s EXCEPT !.pc = "install", !.bk = "done"])
              ELSE /\ UNCHANGED <<cur, bak>>
                   /\ IF s.retry + 1 < MAX_RETRY
                      THEN Becomes(i, [s EXCEPT !.retry = @ + 1, !.pc = "retry_kill"])
                      ELSE Becomes(i, [s EXCEPT !.retry = @ + 1, !.bk = "failed",
                                                !.pc = "install"])
    /\ UNCHANGED <<platform, frozen, alive, newf, scriptFile, appRunning, calls>>

\* if exist "cur" ( move /Y "cur" "cur.old" ; if errorlevel 1 ( set /a retry+=1 ;
\* if !retry! lss 5 ( taskkill ... goto :move_retry ) ; pause ; exit /b 1 ) )
WinBackupMove(i) ==
    /\ IsWin /\ At(i, "backup_move")
    /\ IF cur = "none"
       THEN /\ Becomes(i, [scr[i] EXCEPT !.pc = "install", !.bk = "skipped"])
            /\ UNCHANGED <<cur, bak>>
       ELSE \E ok \in BOOLEAN :
              LET s == [scr[i] EXCEPT !.bkTries = @ + 1] IN
              IF MoveOk(cur, ok)
              THEN /\ bak' = cur
                   /\ cur' = "none"
                   /\ Becomes(i, [s EXCEPT !.pc = "install", !.bk = "done"])
              ELSE /\ UNCHANGED <<cur, bak>>
                   /\ IF s.retry + 1 < MAX_RETRY
                      THEN Becomes(i, [s EXCEPT !.retry = @ + 1, !.pc = "retry_kill"])
                      ELSE Becomes(i, Fatal([s EXCEPT !.retry = @ + 1, !.bk = "failed"],
                                            "fatal_backup"))
    /\ UNCHANGED <<platform, frozen, alive, newf, scriptFile, appRunning, calls>>

\* taskkill /F /IM exe_name ; ping -n 3 ; goto :move_retry
WinRetryKill(i) ==
    /\ IsWin /\ At(i, "retry_kill")
    /\ KillByName
    /\ Becomes(i, [scr[i] EXCEPT !.pc = "move_retry", !.kills = @ + 1])
    /\ UNCHANGED <<platform, frozen, cur, bak, newf, scriptFile, calls>>

\* The copy without its "if errorlevel 1" block: a failed copy goes on to the
\* Cleanup step.
WinInstall_Unchecked(i) ==
    /\ IsWin /\ At(i, "install")
    /\ \E ok \in BOOLEAN :
         /\ cur' \in CopyResults(newf, cur, ok)
         /\ Becomes(i, [scr[i] EXCEPT !.pc = "cleanup_new",
                                      !.inst = IF CopyOk(newf, ok) THEN "ok" ELSE "failed"])
    /\ UNCHANGED <<platform, frozen, alive, bak, newf, scriptFile, appRunning, calls>>

\* copy /Y "new" "cur" ; if errorlevel 1 ( ... restore ... )
WinInstall(i) ==
    /\ IsWin /\ At(i, "install")
    /\ \E ok \in BOOLEAN :
         /\ cur' \in CopyResults(newf, cur, ok)
         /\ IF CopyOk(newf, ok)
            THEN Becomes(i, [scr[i] EXCEPT !.pc = "cleanup_new", !.inst = "ok"])
            ELSE Becomes(i, [scr[i] EXCEPT !.pc = "rollback", !.inst = "failed"])
    /\ UNCHANGED <<platform, frozen, alive, bak, newf, scriptFile, appRunning, calls>>

\* The error block without its restore: pause ; exit /b 1 only.
WinRollback_NoRestore(i) ==
    /\ IsWin /\ At(i, "rollback")
    /\ Becomes(i, Fatal([scr[i] EXCEPT !.rb = "skipped"], "fatal_install"))
    /\ UNCHANGED <<platform, frozen, alive, cur, bak, newf, scriptFile, appRunning, calls>>

\* if exist "cur.old" ( move /Y "cur.old" "cur" ) ; pause ; exit /b 1
WinRollback(i) ==
    /\ IsWin /\ At(i, "rollback")
    /\ IF bak = "none"
       THEN /\ Becomes(i, Fatal([scr[i] EXCEPT !.rb = "skipped"], "fatal_install"))
            /\ UNCHANGED <<cur, bak>>
       ELSE \E ok \in BOOLEAN :
              IF MoveOk(bak, ok)
              THEN /\ cur' = bak
                   /\ bak' = "none"
                   /\ Becomes(i, Fatal([scr[i] EXCEPT !.rb = "ok"], "fatal_install"))
              ELSE /\ UNCHANGED <<cur, bak>>
                   /\ Becomes(i, Fatal([scr[i] EXCEPT !.rb = "failed"], "fatal_install"))
    /\ UNCHANGED <<platform, frozen, alive, newf, scriptFile, appRunning, calls>>

\* pause ; exit /b 1  (the script file stays where it is)
WinPause(i) ==
    /\ IsWin /\ At(i, "pause")
    /\ Becomes(i, [scr[i] EXCEPT !.pc = "exited"])
    /\ UNCHANGED <<platform, frozen, alive, cur, bak, newf, scriptFile, appRunning, calls>>

\* del /F /Q "new"
WinCleanupNew(i) ==
    /\ IsWin /\ At(i, "cleanup_new")
    /\ \E ok \in BOOLEAN :
         /\ newf' = DelResult(newf, ok)
         /\ Becomes(i, [scr[i] EXCEPT !.pc = "cleanup_old",
                                      !.cleanupFailed = @ \/ DelFailed(newf, ok)])
    /\ UNCHANGED <<platform, frozen, alive, cur, bak, scriptFile, appRunning, calls>>

\* The Cleanup step without its second delete: the backup is kept.
WinCleanupOld_Kept(i) ==
    /\ IsWin /\ At(i, "cleanup_old")
    /\ Becomes(i, [scr[i] EXCEPT !.pc = "verify_exists", !.cleaned = TRUE])
    /\ UNCHANGED <<platform, frozen, alive, cur, bak, newf, scriptFile, appRunning, calls>>

\* del /F /Q "cur.old"
WinCleanupOld(i) ==
    /\ IsWin /\ At(i, "cleanup_old")
    /\ \E ok \in BOOLEAN :
         /\ bak' = DelResult(bak, ok)
         /\ Becomes(i, [scr[i] EXCEPT !.pc = "verify_exists", !.cleaned = TRUE,
                                      !.cleanupFailed = @ \/ DelFailed(bak, ok)])
    /\ UNCHANGED <<platform, frozen, alive, cur, newf, scriptFile, appRunning, calls>>

\* if not exist "cur" ( echo ERROR ; pause ; exit /b 1 )
WinVerifyExists(i) ==
    /\ IsWin /\ At(i, "verify_exists")
    /\ IF cur = "none"
       THEN Becomes(i, Fatal(scr[i], "fatal_missing"))
       ELSE Becomes(i, [scr[i] EXCEPT !.pc = "launch"])
    /\ UNCHANGED <<platform, frozen, alive, cur, bak, newf, scriptFile, appRunning, calls>>

\* explorer.exe "cur"
WinLaunch(i) ==
    /\ IsWin /\ At(i, "launch")
    /\ \E up \in BOOLEAN : appRunning' = (appRunning \/ (up /\ Launchable(cur)))
    /\ Becomes(i, [scr[i] EXCEPT !.pc = "verify", !.launches = @ + 1])
    /\ UNCHANGED <<platform, frozen, alive, cur, bak, newf, scriptFile, calls>>

\* tasklist /FI "IMAGENAME eq exe_name" | find /I "exe_name" ; if errorlevel 1 (
\* cmd /c start "" "cur" ).  The origin process has the same image name.
WinVerify(i) ==
    /\ IsWin /\ At(i, "verify")
    /\ IF alive \/ appRunning
       THEN /\ Becomes(i, [scr[i] EXCEPT !.pc = "self_delete", !.verify = "found"])
            /\ UNCHANGED appRunning
       ELSE /\ \E up \in BOOLEAN : appRunning' = (up /\ Launchable(cur))
            /\ Becomes(i, [scr[i] EXCEPT !.pc = "self_delete", !.launches = @ + 1,
                                         !.verify = "missing"])
    /\ UNCHANGED <<platform, frozen, alive, cur, bak, newf, scriptFile, calls>>

\* (goto) 2>nul & del /F /Q "%~f0" ; exit /b 0
WinSelfDelete(i) ==
    /\ IsWin /\ At(i, "self_delete")
    /\ scriptFile' = "none"
    /\ Becomes(i, [scr[i] EXCEPT !.pc = "exited", !.exit = "completed"])
    /\ UNCHANGED <<platform, frozen, alive, cur, bak, newf, appRunning, calls>>

\* ---- the bash script of apply_unix_update ---------------------------------------------
\* while kill -0 pid 2>/dev/null; do sleep 1; done
UnixWaitLoop(i) ==
    /\ IsUnix /\ At(i, "waitloop")
    /\ LET s == [scr[i] EXCEPT !.polls = Min(@ + 1, MaxPolls)] IN
       IF alive
       THEN Becomes(i, [s EXCEPT !.timedOut = @ \/ s.polls >= MAX_WAIT])
       ELSE Becomes(i, LeftLoop([s EXCEPT !.pc = "backup"]))
    /\ UNCHANGED <<platform, frozen, alive, cur, bak, newf, scriptFile, appRunning, calls>>

\* The backup block without its "if [ $? -ne 0 ]" test: a failed cp goes on to
\* the installation.
UnixBackup_Unchecked(i) ==
    /\ IsUnix /\ At(i, "backup")
    /\ IF cur = "none"
       THEN /\ Becomes(i, [scr[i] EXCEPT !.pc = "install", !.bk = "skipped"])
            /\ UNCHANGED bak
       ELSE \E ok \in BOOLEAN :
              LET s == [scr[i] EXCEPT !.bkTries = @ + 1] IN
              /\ bak' \in CopyResults(cur, bak, ok)
              /\ Becomes(i, [s EXCEPT !.pc = "install",
                                      !.bk = IF CopyOk(cur, ok) THEN "done" ELSE "failed"])
    /\ UNCHANGED <<platform, frozen, alive, cur, newf, scriptFile, appRunning, calls>>

\* if [ -f "cur" ]; then cp "cur" "$BACKUP_PATH"; if [ $? -ne 0 ]; then
\* read -p ...; exit 1; fi; fi
UnixBackup(i) ==
    /\ IsUnix /\ At(i, "backup")
    /\ IF cur = "none"
       THEN /\ Becomes(i, [scr[i] EXCEPT !.pc = "install", !.bk = "skipped"])
            /\ UNCHANGED bak
       ELSE \E ok \in BOOLEAN :
              LET s == [scr[i] EXCEPT !.bkTries = @ + 1] IN
              /\ bak' \in CopyResults(cur, bak, ok)
              /\ IF CopyOk(cur, ok)
                 THEN Becomes(i, [s EXCEPT !.pc = "install", !.bk = "done"])
                 ELSE Becomes(i, Fatal([s EXCEPT !.bk = "failed"], "fatal_backup"))
    /\ UNCHANGED <<platform, frozen, alive, cur, newf, scriptFile, appRunning, calls>>

\* cp "new" "cur" ; if [ $? -ne 0 ]; then ... fi
UnixInstall(i) ==
    /\ IsUnix /\ At(i, "install")
    /\ \E ok \in BOOLEAN :
         /\ cur' \in CopyResults(newf, cur, ok)
         /\ IF CopyOk(newf, ok)
            THEN Becomes(i, [scr[i] EXCEPT !.pc = "chmod", !.inst = "ok"])
            ELSE Becomes(i, [scr[i] EXCEPT !.pc = "rollback", !.inst = "failed"])
    /\ UNCHANGED <<platform, frozen, alive, bak, newf, scriptFile, appRunning, calls>>

\* The restore with its arguments swapped: cp "cur" "$BACKUP_PATH".
UnixRollback_Swapped(i) ==
    /\ IsUnix /\ At(i, "rollback")
    /\ \E ok \in BOOLEAN :
         /\ bak' \in CopyResults(cur, bak, ok)
         /\ Becomes(i, Fatal([scr[i] EXCEPT !.rb = IF CopyOk(cur, ok) THEN "ok" ELSE "failed"],
                             "fatal_install"))
    /\ UNCHANGED <<platform, frozen, alive, cur, newf, scriptFile, appRunning, calls>>

\* cp "$BACKUP_PATH" "cur" ; read -p ... ; exit 1
UnixRollback(i) ==
    /\ IsUnix /\ At(i, "rollback")
    /\ \E ok \in BOOLEAN :
         /\ cur' \in CopyResults(bak, cur, ok)
         /\ Becomes(i, Fatal([scr[i] EXCEPT !.rb = IF CopyOk(bak, ok) THEN "ok" ELSE "failed"],
                             "fatal_install"))
    /\ UNCHANGED <<platform, frozen, alive, bak, newf, scriptFile, appRunning, calls>>

\* read -p ... ; exit 1  (the script file stays where it is)
UnixPause(i) ==
    /\ IsUnix /\ At(i, "pause")
    /\ Becomes(i, [scr[i] EXCEPT !.pc = "exited"])
    /\ UNCHANGED <<platform, frozen, alive, cur, bak, newf, scriptFile, appRunning, calls>>

\* chmod +x "cur"
UnixChmod(i) ==
    /\ IsUnix /\ At(i, "chmod")
    /\ Becomes(i, [scr[i] EXCEPT !.pc = "cleanup_new"])
    /\ UNCHANGED <<platform, frozen, alive, cur, bak, newf, scriptFile, appRunning, calls>>

\* rm -f "new"
UnixCleanupNew(i) ==
    /\ IsUnix /\ At(i, "cleanup_new")
    /\ \E ok \in BOOLEAN :
         /\ newf' = DelResult(newf, ok)
         /\ Becomes(i, [scr[i] EXCEPT !.pc = "cleanup_old",
                                      !.cleanupFailed = @ \/ DelFailed(newf, ok)])
    /\ UNCHANGED <<platform, frozen, alive, cur, bak, scriptFile, appRunning, calls>>

\* rm -f "$BACKUP_PATH"
UnixCleanupOld(i) ==
    /\ IsUnix /\ At(i, "cleanup_old")
    /\ \E ok \in BOOLEAN :
         /\ bak' = DelResult(bak, ok)
         /\ Becomes(i, [scr[i] EXCEPT !.pc = "launch", !.cleaned = TRUE,
                                      !.cleanupFailed = @ \/ DelFailed(bak, ok)])
    /\ UNCHANGED <<platform, frozen, alive, cur, newf, scriptFile, appRunning, calls>>

\* nohup "cur" >/dev/null 2>&1 &
UnixLaunch(i) ==
    /\ IsUnix /\ At(i, "launch")
    /\ \E up \in BOOLEAN : appRunning' = (appRunning \/ (up /\ Launchable(cur)))
    /\ Becomes(i, [scr[i] EXCEPT !.pc = "self_delete", !.launches = @ + 1])
    /\ UNCHANGED <<platform, frozen, alive, cur, bak, newf, scriptFile, calls>>

\* rm -f "$0" ; exit 0
UnixSelfDelete(i) ==
    /\ IsUnix /\ At(i, "self_delete")
    /\ scriptFile' = "none"
    /\ Becomes(i, [scr[i] EXCEPT !.pc = "exited", !.exit = "completed"])
    /\ UNCHANGED <<platform, frozen, alive, cur, bak, newf, appRunning, calls>>

\* ---- specifications -----------------------------------------------------------------------
WinStep(i) ==
    \/ WinWaitLoop(i) \/ WinForceKill(i) \/ WinKillByName(i)
    \/ WinMoveRetry(i) \/ WinBackupMove(i) \/ WinRetryKill(i)
    \/ WinInstall(i) \/ WinRollback(i) \/ WinPause(i)
    \/ WinCleanupNew(i) \/ WinCleanupOld(i) \/ WinVerifyExists(i)
    \/ WinLaunch(i) \/ WinVerify(i) \/ WinSelfDelete(i)

UnixStep(i) ==
    \/ UnixWaitLoop(i) \/ UnixBackup(i) \/ UnixInstall(i) \/ UnixRollback(i)
    \/ UnixPause(i) \/ UnixChmod(i) \/ UnixCleanupNew(i) \/ UnixCleanupOld(i)
    \/ UnixLaunch(i) \/ UnixSelfDelete(i)

ScriptStep == \E i \in ScriptIds : WinStep(i) \/ UnixStep(i)

\* One update attempt: apply_update is called once.
Next == ApplyOnce \/ OriginExits \/ ScriptStep

Spec == Init /\ [][Next]_vars

\* The caller may call apply_update again while it is still running.
NextRepeat == ApplyOnce \/ ApplyAgain \/ OriginExits \/ ScriptStep

SpecRepeat == Init /\ [][NextRepeat]_vars

\* ---- properties ------------------------------------------------------------------------------
Started(i) == scr[i].pc # "idle"
Terminated(i) == scr[i].pc = "exited"

\* Script i is in its Backup step (any attempt of it) or at its Install copy.
InBackupOrInstall(i) ==
    scr[i].pc \in {"move_retry", "backup_move", "retry_kill", "backup", "install"}

\* A complete executable is at the current path or at the backup path.
ValidBinarySomewhere == cur \in {"old", "new"} \/ bak = "old"

\* C1: in both dialects, in a run of the script that started with the old
\* binary at the current path, whatever file, move, delete or kill commands
\* fail, every state has a complete executable at the current path (the old
\* or the new binary) or the complete old binary at the backup path.
C1_ValidBinaryAlways ==
    \A i \in ScriptIds :
        (Started(i) /\ scr[i].cur0 = "old") => ValidBinarySomewhere

\* The backup exists, the copy failed and left the current path empty or
\* half-written.
C1_Witness ==
    \E i \in ScriptIds :
        /\ scr[i].cur0 = "old" /\ scr[i].inst = "failed"
        /\ cur \in {"none", "partial"} /\ bak = "old"

\* C2: when the current binary exists at the Backup step (a move or cp of it
\* is attempted), the script is at its Install copy, or has performed it,
\* only after the Backup step succeeded; once the Backup step has failed the
\* script is on its way out and has not installed.
C2_NoInstallWithoutBackup ==
    \A i \in ScriptIds :
        /\ (scr[i].bkTries > 0 /\ (At(i, "install") \/ scr[i].inst # "no"))
              => scr[i].bk = "done"
        /\ scr[i].bk = "failed"
              => (scr[i].inst = "no" /\ scr[i].pc \in {"pause", "exited"})

\* The backup succeeded at a second or later attempt and the copy was made.
C2_Witness ==
    \E i \in ScriptIds :
        scr[i].bkTries >= 2 /\ scr[i].bk = "done" /\ scr[i].inst = "ok"

C4_ForceKillBeforeBackup ==
    \A i \in ScriptIds :
        (InBackupOrInstall(i) /\ (alive \/ scr[i].timedOut)) => scr[i].forceKill

\* C5: in both dialects the wait loop polls at most MAX_WAIT times: no script
\* has polled more often, and once poll number MAX_WAIT has found the origin
\* process running the script has left the loop.
C5_WaitBounded ==
    \A i \in ScriptIds :
        /\ scr[i].polls <= MAX_WAIT
        /\ scr[i].timedOut => ~At(i, "waitloop")

\* C6: in both dialects the Backup step is attempted at most MAX_RETRY times,
\* with a kill before every attempt after the first; the script gives up the
\* backup only after MAX_RETRY failed attempts, and then the binary is still at
\* the current path and no Install copy was made; after a successful attempt
\* the script is past the Backup step and does not give up for the backup.
C6_BackupRetried ==
    \A i \in ScriptIds :
        /\ scr[i].bkTries <= MAX_RETRY
        /\ scr[i].bkTries <= scr[i].kills + 1
        /\ scr[i].exit = "fatal_backup"
              => (scr[i].bkTries = MAX_RETRY /\ cur = scr[i].cur0 /\ scr[i].inst = "no")
        /\ scr[i].bk = "done"
              => (scr[i].exit # "fatal_backup"
                  /\ scr[i].pc \notin {"move_retry", "backup_move", "retry_kill", "backup"})

\* C7: whichever way a script ends (completed, given up at the backup, or
\* given up after a failed copy and the restore), the script file is gone.
C7_SelfDeleteAlways ==
    \A i \in ScriptIds : Terminated(i) => scriptFile = "none"

\* C8: whatever the number of apply_update calls, at most one script process
\* is running at any time.
C8_OneLiveScript == Cardinality(LiveScripts) <= 1

C10_NotFrozenNoEffect ==
    /\ [](~frozen => \A k \in 1..Len(calls) :
                        ~calls[k].ret /\ ~calls[k].started /\ calls[k].tried = 0)
    /\ [][~frozen => /\ scriptFile' = scriptFile
                     /\ cur' = cur /\ bak' = bak /\ newf' = newf
                     /\ scr' = scr /\ appRunning' = appRunning]_vars

\* apply_update has been called in a build that is not frozen, on a platform
\* that has a script, with the new binary in place.
C10_Witness ==
    /\ ~frozen /\ newf = "new" /\ platform \in {"win32", "linux", "darwin"}
    /\ Len(calls) = 1

\* The step is a call of apply_update: it appends the call's record.
IsCall == Len(calls') = Len(calls) + 1
LastCall == calls'[Len(calls')]

\* C11: a call of apply_update made while the new binary is missing returns
\* False, leaves the script file as it was (neither written nor overwritten)
\* and tries no spawn: no script process exists afterwards that did not exist
\* before.
C11_MissingArtifactRefused ==
    [][(IsCall /\ newf = "none")
          => /\ ~LastCall.ret /\ ~LastCall.started
             /\ LastCall.tried = 0 /\ LastCall.spawned = 0
             /\ scriptFile' = scriptFile
             /\ scr' = scr]_vars

\* A frozen build on a supported platform made its call with the new binary
\* missing and an earlier script file in place.
C11_Witness ==
    /\ frozen /\ platform \in {"win32", "linux", "darwin"}
    /\ newf = "none" /\ Len(calls) = 1 /\ ~calls[1].ret
    /\ scriptFile = "full"

\* C12: a call of apply_update that returned True has written the complete
\* script and started exactly one process; every call uses the same script
\* file path, so any number of calls leaves at most one script file.
C12_TrueMeansWrittenAndStartedOnce ==
    /\ [](\A k \in 1..Len(calls) :
            /\ calls[k].ret => (calls[k].started /\ calls[k].spawned = 1 /\ Started(k))
            /\ \A j \in 1..Len(calls) : calls[j].path = calls[k].path)
    /\ [][(IsCall /\ LastCall.ret)
             => (scriptFile' = "full" /\ scr'[Len(calls')].pc = "waitloop")]_vars

\* Two calls returned True.
C12_Witness ==
    /\ Len(calls) = 2 /\ calls[1].ret /\ calls[2].ret
    /\ calls[1].spawned = 1 /\ calls[2].spawned = 1

\* No file command of script i failed: the backup was made at the first
\* attempt, the copy succeeded and both deletes of the Cleanup step succeeded.
NoFileFault(i) ==
    /\ scr[i].bkTries <= 1 /\ scr[i].bk # "failed"
    /\ scr[i].inst # "failed" /\ ~scr[i].cleanupFailed

\* C13: a terminated run of the script in which the origin process left
\* within the wait and no file command failed ends with the new binary at the
\* current path, no backup file, no new-binary file and a launch issued,
\* whether or not a stale backup existed before.
C13_HappyPath ==
    \A i \in ScriptIds :
        (Terminated(i) /\ ~scr[i].timedOut /\ NoFileFault(i))
            => /\ scr[i].exit = "completed"
               /\ cur = "new" /\ bak = "none" /\ newf = "none"
               /\ scr[i].launches >= 1

\* Such a run over an old binary has terminated.
C13_Witness ==
    \E i \in ScriptIds :
        /\ Terminated(i) /\ ~scr[i].timedOut /\ NoFileFault(i)
        /\ scr[i].cur0 = "old" /\ scr[i].bk = "done" /\ cur = "new"

\* C14: in both dialects a run of the script that went through Rollback has
\* issued a launch of the restored binary by the time it terminates.
C14_RestartAfterRollback ==
    \A i \in ScriptIds :
        (Terminated(i) /\ scr[i].rb = "ok") => scr[i].launches >= 1

\* Script i ended on an error path with the old binary at the current path and
\* the new one not installed.
EndedFatal(i) ==
    /\ scr[i].exit \in {"fatal_backup", "fatal_install", "fatal_missing"}
    /\ cur = "old" /\ scr[i].inst # "ok"

\* Script i ended on the success path with the new binary at the current path
\* and a launch issued.
EndedCompleted(i) ==
    scr[i].exit = "completed" /\ cur = "new" /\ scr[i].launches >= 1

C16_CleanupAfterInstall ==
    \A i \in ScriptIds :
        /\ (scr[i].pc \in {"cleanup_new", "cleanup_old"} \/ scr[i].cleaned)
              => scr[i].inst = "ok"
        /\ (scr[i].pc \in {"launch", "verify"} \/ scr[i].launches >= 1)
              => scr[i].cleaned
        /\ scr[i].exit \in {"fatal_backup", "fatal_install"}
              => (~scr[i].cleaned /\ newf = "new")

\* A run cleaned up after its install and issued its launch.
C16_Witness ==
    \E i \in ScriptIds :
        scr[i].inst = "ok" /\ scr[i].cleaned /\ scr[i].launches >= 1 /\ newf = "none"

\* C17: in both dialects a run that reached its self-delete has verified,
\* after the first launch, that the application is running, and has issued
\* exactly one more launch when it was not; it has not rolled back.
C17_RestartVerified ==
    \A i \in ScriptIds :
        (At(i, "self_delete") \/ scr[i].exit = "completed")
            => /\ scr[i].verify # "no"
               /\ scr[i].verify = "found" => scr[i].launches = 1
               /\ scr[i].verify = "missing" => scr[i].launches = 2
               /\ scr[i].rb = "no" /\ scr[i].inst = "ok"

C19_ApplyFrame ==
    [][IsCall => /\ cur' = cur /\ bak' = bak /\ newf' = newf
                 /\ alive' = alive /\ appRunning' = appRunning
                 /\ \A i \in ScriptIds \ {Len(calls')} : scr'[i] = scr[i]]_vars

\* A call has returned True and the three files and the caller are as they
\* were.
C19_Witness ==
    /\ Len(calls) = 1 /\ calls[1].ret /\ alive
    /\ cur = "old" /\ bak = "stale" /\ newf = "new" /\ At(1, "waitloop")

\* C20: the branch apply_update takes depends on the platform only: win32
\* starts the batch script with cmd.exe, linux and darwin start the shell
\* script, any other platform returns False, writes no script and tries no
\* spawn.
C20_PlatformDispatch ==
    /\ [](\A k \in 1..Len(calls) :
            /\ (platform = "win32" /\ calls[k].started) => calls[k].via = "cmd.exe"
            /\ (platform = "darwin" /\ calls[k].started) => calls[k].via = "osascript"
            /\ (platform = "linux" /\ calls[k].started)
                  => calls[k].via \in {Terminals[t] : t \in 1..Len(Terminals)} \cup {"bash"}
            /\ platform \notin {"win32", "linux", "darwin"}
                  => (~calls[k].ret /\ ~calls[k].started /\ calls[k].tried = 0))
    /\ [][(IsCall /\ platform \notin {"win32", "linux", "darwin"})
             => (scriptFile' = scriptFile /\ scr' = scr)]_vars

\* A frozen build with the new binary in place made its call on a platform
\* that is neither windows nor linux nor darwin.
C20_Witness ==
    /\ platform \notin {"win32", "linux", "darwin"}
    /\ frozen /\ newf = "new" /\ Len(calls) = 1 /\ ~calls[1].ret

\* C21: in a run whose wait ran past MAX_WAIT polls with the origin process
\* still there, the script has issued exactly one termination command (by
\* PID or by image name) by the time its backup has succeeded.
C21_OneKillBeforeBackup ==
    \A i \in ScriptIds :
        (scr[i].timedOut /\ scr[i].bk = "done") => scr[i].kills = 1

\* C23: in both dialects, when the Install copy is about to run after a
\* successful backup, the old binary is at the backup path and no file is at
\* the current path.
C23_InstallIntoVacatedPath ==
    \A i \in ScriptIds :
        (At(i, "install") /\ scr[i].bk = "done") => (cur = "none" /\ bak = "old")

\* C25: a run that found no file at the current path in its Backup step made
\* no backup attempt, did not stop there and created no backup file; when its
\* Install copy then failed it terminated with nothing restored from a backup
\* to the current path.
C25_NothingToRestore ==
    \A i \in ScriptIds :
        scr[i].bk = "skipped"
            => /\ scr[i].bkTries = 0 /\ scr[i].exit # "fatal_backup"
               /\ bak \in {"none", "stale"}
               /\ (Terminated(i) /\ scr[i].inst = "failed")
                     => (scr[i].rb # "ok" /\ cur \in {"none", "partial"})

\* C22: on linux a call that reached its spawns started the script with the
\* emulator of lowest index that spawns, after one attempt per earlier
\* emulator; the 'bash script_path' fallback is used only after all of them
\* raised, and when it raises too the call returns False with nothing started.
\* On darwin and win32 there is one attempt, and when it raises the call
\* returns False with nothing started.
C22_LaunchOrder ==
    \A k \in 1..Len(calls) :
        LET c == calls[k] IN
        /\ (platform = "linux" /\ c.tried > 0)
              => IF c.first # 0
                 THEN /\ c.ret /\ c.started /\ c.spawned = 1
                      /\ c.via = Terminals[c.first] /\ c.tried = c.first
                 ELSE /\ c.tried = Len(Terminals) + 1
                      /\ \/ c.ret /\ c.started /\ c.via = "bash" /\ c.spawned = 1
                         \/ ~c.ret /\ ~c.started /\ c.spawned = 0
        /\ platform \in {"win32", "darwin"}
              => /\ c.tried <= 1
                 /\ (c.tried = 1 /\ ~c.started) => (~c.ret /\ c.spawned = 0)

\* The first two emulators raised and the third one started the script.
C22_Witness ==
    /\ platform = "linux" /\ Len(calls) = 1
    /\ calls[1].first = 3 /\ calls[1].via = Terminals[3] /\ calls[1].tried = 3

\* C24: in an environment where can_auto_update is False every call of
\* apply_update returned False and started no script; a call returned True
\* only where can_auto_update is True.
C24_GateAgreement ==
    \A k \in 1..Len(calls) :
        /\ ~can_auto_update => (~calls[k].ret /\ ~calls[k].started /\ ~Started(k))
        /\ calls[k].ret => can_auto_update

\* A call was made, with the new binary in place, on an unsupported platform
\* or from a build that is not frozen: can_auto_update is False.
C24_Witness ==
    /\ ~can_auto_update /\ newf = "new" /\ Len(calls) = 1
    /\ \/ (platform = "other" /\ frozen)
       \/ (platform = "win32" /\ ~frozen)

=============================================================================
